---------------------------- MODULE Spec2Model ----------------------------
(***************************************************************************)
(* Model of lc574alDataGrabber.py: the run of dataGrabber() over the        *)
(* Prologix serial channel (ask(), lines 87-118), the assembly that follows *)
(* it (lines 64-79, genTraceArrays, genTimeArrays) and setOscilloscopeDate. *)
(*                                                                         *)
(* Text is modelled as a sequence of one-character strings, so that strip, *)
(* split and re.search are computed on characters.                          *)
(*                                                                         *)
(* genTimeArrays() cannot be compiled: lines 141-147 are `try: ... else:`   *)
(* with no except clause.  Loaded as it stands, the file fails with         *)
(* SyntaxError and nothing runs (Uncompiled).  With dataGrabber() and ask() *)
(* compiled apart (Ready), the run goes as their text says, and the call of *)
(* genTimeArrays() at line 77 raises NameError.                             *)
(***************************************************************************)
EXTENDS Integers, Sequences, FiniteSets, TLC

VARIABLES
  pc,          \* position of dataGrabber()/ask(): uncompiled, or configure, call, read, flush, return, assemble
  qi,          \* index (1..NumQueries) of the query dataGrabber() is at
  written,     \* everything written to the serial device, in order
  inFlight,    \* bytes the instrument has sent that have not reached the input buffer yet
  inBuffer,    \* the serial device's input buffer (arrived, not yet read)
  line,        \* ask(): local `line`
  txt,         \* ask(): local `txt`
  stream,      \* every byte serDev.read() has handed to the current ask() call
  discarded,   \* the bytes the latest serDev.flushInput() dropped
  idleReads,   \* parity of the reads of the current ask() call that returned no byte
  irregular,   \* the instrument has answered a query in another form than Regular
  ppc,         \* position in lines 64-79 of dataGrabber() and in the functions it calls
  intermediateDict,   \* dataGrabber(): the texts ask() returned
  given,       \* the content the texts of intermediateDict were written from
  datObject,   \* dataGrabber(): the object under construction
  initialTimeValues,  \* genTimeArrays(): local list
  timeArrayList,      \* genTimeArrays(): the list it returns
  err          \* the exception that ended the run, "" while there is none

tvars == <<pc, qi, written, inFlight, inBuffer, line, txt, stream, discarded, idleReads,
           irregular>>
pvars == <<ppc, given, datObject, initialTimeValues, timeArrayList, err>>
vars == <<tvars, intermediateDict, pvars>>

----------------------------------------------------------------------------
(* Python string operations, on sequences of characters *)

LF == "\n"
CR == "\r"
FF == "\f"
VT == ""

\* the characters str.strip() removes: space, \t, \n, \r, \x0b, \x0c
Whitespace == {" ", "\t", LF, CR, VT, FF}

\* s[i:i+len(pat)] == pat  (i counted from 1)
MatchAt(pat, s, i) ==
  /\ i >= 1
  /\ i + Len(pat) - 1 <= Len(s)
  /\ \A k \in 1..Len(pat) : s[i + k - 1] = pat[k]

\* str.find: the first position where pat occurs in s, 0 when it does not
find(s, pat) ==
  LET hits == {i \in 1..(Len(s) + 1) : MatchAt(pat, s, i)}
  IN IF hits = {} THEN 0 ELSE CHOOSE i \in hits : \A j \in hits : i <= j

\* re.search of a literal pattern
re_search(pat, s) == find(s, pat) # 0

\* s.split(sep)[0]
split0(s, sep) ==
  IF find(s, sep) = 0 THEN s ELSE SubSeq(s, 1, find(s, sep) - 1)

\* str.strip()
strip(s) ==
  LET keep == {i \in 1..Len(s) : s[i] \notin Whitespace}
  IN IF keep = {} THEN <<>>
     ELSE SubSeq(s, CHOOSE i \in keep : \A j \in keep : i <= j,
                    CHOOSE i \in keep : \A j \in keep : i >= j)

----------------------------------------------------------------------------
(* The queries of dataGrabber(), lines 43-61 *)

STB == <<"*", "S", "T", "B">>                       \* the pattern of re.search, line 109
SEMI_STB == <<";">> \o STB                          \* the separator of split, line 110
STBQ_CRLF == <<";", "*", "S", "T", "B", "?", CR, LF>>   \* the suffix of line 98

IDN == <<"*", "I", "D", "N", "?">>
INSPECT == <<"I", "N", "S", "P", "E", "C", "T", "?", " ">>
WAVEDESC == <<"\"", "W", "A", "V", "E", "D", "E", "S", "C", "\"">>
SIMPLE == <<"\"", "S", "I", "M", "P", "L", "E", "\"">>
TRIGTIME == <<"\"", "T", "R", "I", "G", "T", "I", "M", "E", "\"">>

NumChannels == 4
NumQueries == 10

\* str(indx)
str(n) == <<ToString(n)>>

\* The argument of the qi-th call of ask() in dataGrabber()
Request(k) ==
  IF k = 1 THEN IDN
  ELSE IF k <= 1 + NumChannels
    THEN <<"C">> \o str(k - 1) \o <<":">> \o INSPECT \o WAVEDESC
  ELSE IF k <= 1 + 2 * NumChannels
    THEN <<"C">> \o str(k - 1 - NumChannels) \o <<":">> \o INSPECT \o SIMPLE
  ELSE <<"C", "1", ":", ":">> \o INSPECT \o TRIGTIME

\* The controller commands of lines 34-37
scopeGPIBAddr == 5
ControllerSetup ==
  << <<"+", "+", "m", "o", "d", "e", " ", "1", LF>>,
     <<"+", "+", "a", "d", "d", "r">> \o str(scopeGPIBAddr) \o <<LF>>,
     <<"+", "+", "a", "u", "t", "o", " ", "1", LF>>,
     <<"+", "+", "i", "f", "c", LF>> >>

----------------------------------------------------------------------------
(* The instrument behind the channel.  A reply to one query is up to        *)
(* MaxDataLines lines of response, at most one status token (the query      *)
(* carries exactly one *STB?), and up to MaxResidual bytes after the line   *)
(* that holds it.  The regular reply is one line, response;*STB 0.  In one  *)
(* run the instrument answers at most one query in another form.            *)

MaxDataLines == 2
MaxResidual == 1

RECURSIVE DataLines(_)
DataLines(n) == IF n = 0 THEN <<>> ELSE DataLines(n - 1) \o <<"a", LF>>

RECURSIVE Residual(_)
Residual(n) == IF n = 0 THEN <<>> ELSE <<CR>> \o Residual(n - 1)

Regular == <<"a", ";", "*", "S", "T", "B", " ", "0", LF>>   \* response;*STB 0

StatusTails ==
  { Regular,
    <<"*", "S", "T", "B", " ", "0", LF>>,             \* a status reply alone on its line
    <<>> }                                            \* no status reply (truncated or silent)

Replies ==
  { DataLines(n) \o t \o (IF t = <<>> THEN <<>> ELSE Residual(r)) :
      n \in 0..MaxDataLines, t \in StatusTails, r \in 0..MaxResidual }

\* Bytes carry two labels the program cannot see: the query they answer (q) and
\* the number of flushInput() calls completed when they reached the buffer (ep).
Tagged(s, k) == [i \in 1..Len(s) |-> [ch |-> s[i], q |-> k, ep |-> -1]]
Chars(bs) == [i \in 1..Len(bs) |-> bs[i].ch]

FlushesDone == IF pc \in {"return", "assemble"} THEN qi ELSE qi - 1

----------------------------------------------------------------------------
(* serial.Serial("/dev/ttyUSB0", timeout=0).read(): at most one byte, *)
(* without waiting                                                    *)
serialRead(buf) == IF buf = <<>> THEN <<>> ELSE <<Head(buf)>>

\* a flushInput() that leaves the buffer as it is
flushInputKeeps(buf) == buf

\* serDev.flushInput()
flushInput(buf) == <<>>

\* a loop that stops at the first line feed, status token or not
EndOfResponseAnyLine(ln) == TRUE

\* line 109: the line just completed ends the response
EndOfResponse(ln) == re_search(STB, Chars(ln))

None == "None"

\* intermediateDict = {} of line 40, with the lists of lines 47 and 53
NoDict == [idn |-> <<>>, wavedesc |-> <<>>, simple |-> <<>>, trigtime |-> <<>>]

\* lines 44, 50, 58, 61: the text of the k-th query goes into intermediateDict
Store(dict, k, text) ==
  IF k = 1 THEN [dict EXCEPT !.idn = text]
  ELSE IF k <= 1 + NumChannels THEN [dict EXCEPT !.wavedesc = Append(@, text)]
  ELSE IF k <= 1 + 2 * NumChannels THEN [dict EXCEPT !.simple = Append(@, text)]
  ELSE [dict EXCEPT !.trigtime = text]

\* lines 69-71
Metadata(dict) == [idn |-> dict.idn, C |-> dict.wavedesc]

\* genTraceArrays(), lines 167-183: the grammar is built and never applied, and
\* the function ends without a return statement
genTraceArrays(dict) == None

\* genTimeArrays(), lines 121-164: the def does not compile (try/else without
\* except, line 145), so where dataGrabber() runs the name is not bound and the
\* call of line 77 raises NameError
genTimeArrays(dict) == [raised |-> "NameError"]

\* The file loaded as it stands: compiling it fails at line 145, before any
\* statement runs.  No device is opened, nothing is written, no function exists.
Uncompiled ==
  /\ pc = "uncompiled"
  /\ qi = 1
  /\ written = <<>>
  /\ inFlight = <<>>
  /\ inBuffer = <<>>
  /\ line = <<>>
  /\ txt = <<>>
  /\ stream = <<>>
  /\ discarded = <<>>
  /\ idleReads = 0
  /\ irregular = FALSE
  /\ ppc = "uncompiled"
  /\ intermediateDict = NoDict
  /\ given = NoDict
  /\ datObject = [metadata |-> <<>>, data |-> <<>>]
  /\ initialTimeValues = <<>>
  /\ timeArrayList = <<>>
  /\ err = "SyntaxError"

\* dataGrabber() and ask() compiled apart from genTimeArrays(), at the entry of
\* dataGrabber()
Ready ==
  /\ pc = "configure"
  /\ qi = 1
  /\ written = <<>>
  /\ inFlight = <<>>
  /\ inBuffer = <<>>
  /\ line = <<>>
  /\ txt = <<>>
  /\ stream = <<>>
  /\ discarded = <<>>
  /\ idleReads = 0
  /\ irregular = FALSE
  /\ ppc = "acquiring"
  /\ intermediateDict = NoDict
  /\ given = NoDict
  /\ datObject = [metadata |-> <<>>, data |-> <<>>]
  /\ initialTimeValues = <<>>
  /\ timeArrayList = <<>>
  /\ err = ""

Init == Ready \/ Uncompiled

\* lines 31-40
Configure ==
  /\ pc = "configure"
  /\ written' = [i \in 1..Len(ControllerSetup) |->
                   [kind |-> "controller", text |-> ControllerSetup[i]]]
  /\ pc' = "call"
  /\ UNCHANGED <<qi, inFlight, inBuffer, line, txt, stream, discarded, idleReads,
                 irregular, intermediateDict, pvars>>

\* ask(), lines 95-102; the instrument answers the query it receives
AskWrite ==
  /\ pc = "call"
  /\ LET reqStr == strip(Request(qi))
     IN written' = Append(written, [kind |-> "query", text |-> reqStr \o STBQ_CRLF])
  /\ \E r \in (IF irregular THEN {Regular} ELSE Replies) :
       /\ inFlight' = inFlight \o Tagged(r, qi)
       /\ irregular' = (irregular \/ r # Regular)
  /\ line' = <<>>
  /\ txt' = <<>>
  /\ stream' = <<>>
  /\ idleReads' = 0
  /\ pc' = "read"
  /\ UNCHANGED <<qi, inBuffer, discarded, intermediateDict, pvars>>

\* one byte of the instrument's output reaches the input buffer
Deliver ==
  /\ inFlight # <<>>
  /\ inBuffer' = Append(inBuffer, [Head(inFlight) EXCEPT !.ep = FlushesDone])
  /\ inFlight' = Tail(inFlight)
  /\ UNCHANGED <<pc, qi, written, line, txt, stream, discarded, idleReads, irregular,
                 intermediateDict, pvars>>

\* ask(), one turn of the loop of lines 104-115
AskRead ==
  /\ pc = "read"
  /\ LET bufr == serialRead(inBuffer)
         ln == line \o bufr
     IN /\ inBuffer' = IF bufr = <<>> THEN inBuffer ELSE Tail(inBuffer)
        /\ stream' = stream \o bufr
        /\ idleReads' = IF bufr = <<>> THEN 1 - idleReads ELSE idleReads
        /\ IF re_search(<<LF>>, Chars(bufr))
             THEN IF EndOfResponse(ln)
                    THEN /\ txt' = txt \o SubSeq(ln, 1, Len(split0(Chars(ln), SEMI_STB)))
                         /\ line' = ln
                         /\ pc' = "flush"
                    ELSE /\ txt' = txt \o ln
                         /\ line' = <<>>
                         /\ pc' = pc
             ELSE /\ line' = ln
                  /\ txt' = txt
                  /\ pc' = pc
  /\ UNCHANGED <<qi, written, inFlight, discarded, irregular, intermediateDict, pvars>>

\* ask(), line 117
AskFlush ==
  /\ pc = "flush"
  /\ discarded' = inBuffer
  /\ inBuffer' = flushInput(inBuffer)
  /\ pc' = "return"
  /\ UNCHANGED <<qi, written, inFlight, line, txt, stream, idleReads, irregular,
                 intermediateDict, pvars>>

\* ask(), line 118, and the store of the returned text by dataGrabber(), lines
\* 43-61; after the tenth the run goes on at line 64
AskReturn ==
  /\ pc = "return"
  /\ intermediateDict' = Store(intermediateDict, qi, Chars(txt))
  /\ IF qi < NumQueries
       THEN qi' = qi + 1 /\ pc' = "call" /\ ppc' = ppc
       ELSE qi' = qi /\ pc' = "assemble" /\ ppc' = "metadata"
  /\ UNCHANGED <<written, inFlight, inBuffer, line, txt, stream, discarded, idleReads,
                 irregular, given, datObject, initialTimeValues, timeArrayList, err>>

\* lines 64-71
BuildMetadata ==
  /\ ppc = "metadata"
  /\ datObject' = [metadata |-> Metadata(intermediateDict), data |-> <<>>]
  /\ ppc' = "traces"
  /\ UNCHANGED <<tvars, intermediateDict, given, initialTimeValues, timeArrayList, err>>

\* line 74
TraceArrays ==
  /\ ppc = "traces"
  /\ datObject' = [datObject EXCEPT !.data = genTraceArrays(intermediateDict)]
  /\ ppc' = "times"
  /\ UNCHANGED <<tvars, intermediateDict, given, initialTimeValues, timeArrayList, err>>

\* line 77: the call of genTimeArrays() raises; lines 78-84 are not reached
TimeArrays ==
  /\ ppc = "times"
  /\ err' = genTimeArrays(intermediateDict).raised
  /\ ppc' = "raised"
  /\ UNCHANGED <<tvars, intermediateDict, given, datObject, initialTimeValues,
                 timeArrayList>>

Next ==
  \/ Configure \/ AskWrite \/ Deliver \/ AskRead \/ AskFlush \/ AskReturn
  \/ BuildMetadata \/ TraceArrays \/ TimeArrays

Spec == Init /\ [][Next]_vars

\* The program keeps running and the channel keeps delivering: every step that
\* can change the state is eventually taken.
FairSpec ==
  /\ Spec
  /\ WF_vars(Configure) /\ WF_vars(AskWrite) /\ WF_vars(Deliver)
  /\ WF_vars(AskRead) /\ WF_vars(AskFlush) /\ WF_vars(AskReturn)
  /\ WF_vars(BuildMetadata) /\ WF_vars(TraceArrays) /\ WF_vars(TimeArrays)

----------------------------------------------------------------------------
(* Claims about ask() and the acquisition run *)

InAsk == pc \in {"read", "flush", "return"}

\* The status marker of a stream: the first *STB, together with the ';' that
\* separates it from the response when there is one.
MarkerStart(s) ==
  LET p == find(s, STB)
  IN IF p > 1 /\ s[p - 1] = ";" THEN p - 1 ELSE p

\* C1: when ask() returns, the text it returns is the stream it was handed up to,
\* and not including, the status marker: the data lines in arrival order, then
\* the part of the marker line that precedes the marker.
C1_ReturnsTextBeforeMarker ==
  pc = "return" =>
    /\ re_search(STB, Chars(stream))
    /\ Chars(txt) = SubSeq(Chars(stream), 1, MarkerStart(Chars(stream)) - 1)

\* C2: the read loop of ask() always ends (with the marker line read, or with a
\* FramingTimeout once the read budget is used up).
C2_ReadLoopEnds == (pc = "read") ~> (pc \in {"flush", "timeout"})

\* C3 as stated: the text of an ask() call holds only bytes the instrument sent
\* in reply to that call's query, whatever the timing.
C3_OnlyOwnReplyBytes ==
  InAsk => \A i \in DOMAIN txt : txt[i].q = qi

\* C3 amended: flushInput() drops what is buffered when it runs.  Every byte an
\* ask() call reads reached the buffer after the previous call's discard, and
\* whatever is buffered when ask() returns reached it after this call's discard.
C3_DiscardsWhatIsBuffered ==
  /\ InAsk => \A i \in DOMAIN stream : stream[i].ep = qi - 1
  /\ pc = "return" => \A i \in DOMAIN inBuffer : inBuffer[i].ep = qi

\* C3 witness: a second or later call returns after its discard dropped bytes
C3_Witness ==
  /\ pc = "return"
  /\ qi >= 2
  /\ discarded # <<>>
  /\ txt # <<>>

QueriesWritten == {i \in DOMAIN written : written[i].kind = "query"}

\* the line holds a status token sent in reply to query k
OwnMarkerIn(ln, k) ==
  \E i \in 1..Len(ln) :
    /\ MatchAt(STB, Chars(ln), i)
    /\ \A j \in i..(i + Len(STB) - 1) : ln[j].q = k

\* C4: at most one query is outstanding.  A query is written only from the call
\* position, and the call position of query k+1 is reached only after the
\* status-marker line of the reply to query k has been read.
C4_OneOutstanding ==
  /\ Cardinality(QueriesWritten) =
       (IF pc \in {"read", "flush", "return", "assemble"} THEN qi ELSE qi - 1)
  /\ pc \in {"flush", "return", "assemble"} => OwnMarkerIn(line, qi)
  /\ (pc = "call" /\ qi > 1) => OwnMarkerIn(line, qi - 1)

\* C4 witness: the whole run, ten queries written and ten replies read
C4_Witness ==
  /\ pc = "assemble"
  /\ Cardinality(QueriesWritten) = NumQueries

\* The query vocabulary of the instrument protocol
Vocabulary ==
  {IDN} \cup
  { <<"C">> \o str(n) \o <<":">> \o INSPECT \o what :
      n \in 1..NumChannels, what \in {WAVEDESC, TRIGTIME, SIMPLE} }

\* C5: every query on the wire is a vocabulary query followed by ;*STB? and CR LF
C5_QueriesInVocabulary ==
  \A i \in QueriesWritten :
    \E v \in Vocabulary : written[i].text = v \o STBQ_CRLF

----------------------------------------------------------------------------
(* The texts the assembly starts from.  Each is written out from content    *)
(* that is kept beside it in `given`.  A float is held exactly, as an       *)
(* integer count of 10^-FloatScale.                                         *)

CRLF == <<CR, LF>>
MaxTrigLines == 2
MaxSegments == 2
FloatScale == 2

RECURSIVE Pow10(_)
Pow10(n) == IF n = 0 THEN 1 ELSE 10 * Pow10(n - 1)

\* v hundredths as a float of the model
Hundredths(v) == (v * Pow10(FloatScale)) \div 100

\* Lines of a trigger-time body.  claimed: the line holds exactly two numbers,
\* with whitespace or a comma between them.  sum: of the two.
TrigLineTable ==
  << [chars |-> <<"1", ".", "0", "e", "+", "0", " ", "2", ".", "5", "e", "-", "1">>,
      claimed |-> TRUE, sum |-> Hundredths(125)],
     [chars |-> <<"1", ".", "0", "e", "+", "0", ",", "2", ".", "5", "e", "-", "1">>,
      claimed |-> TRUE, sum |-> Hundredths(125)],
     [chars |-> <<>>,
      claimed |-> FALSE, sum |-> 0],
     [chars |-> <<"5", ".", "0", "e", "-", "1", " ", "0", ".", "0", "e", "+", "0", " ",
                  "7", ".", "0", "e", "+", "0">>,
      claimed |-> FALSE, sum |-> 0],
     [chars |-> <<"5", ".", "0", "e", "-", "1">>,
      claimed |-> FALSE, sum |-> 0],
     [chars |-> <<" ", "5", ".", "0", "E", "-", "1", "\t", "0", ".", "0", "e", "+", "0">>,
      claimed |-> TRUE, sum |-> Hundredths(50)] >>

TrigBodies(n) ==
  UNION { [1..k -> {TrigLineTable[i] : i \in DOMAIN TrigLineTable}] : k \in 0..n }

RECURSIVE TrigText(_)
TrigText(ls) ==
  IF ls = <<>> THEN <<>> ELSE Head(ls).chars \o CRLF \o TrigText(Tail(ls))

\* How a text that ask() returns can end: with the last complete line, or with
\* a status line that holds no ";*STB", which line 110 keeps whole.  The loop is
\* left at that line, so nothing follows it.
TrigTails == {<<>>, <<"*", "S", "T", "B", " ", "0", LF>>}

\* Descriptors.  h: HORIZ_INTERVAL, W: WAVE_ARRAY_COUNT.
HORIZ_INTERVAL == <<"H", "O", "R", "I", "Z", "_", "I", "N", "T", "E", "R", "V", "A", "L">>
WAVE_ARRAY_COUNT ==
  <<"W", "A", "V", "E", "_", "A", "R", "R", "A", "Y", "_", "C", "O", "U", "N", "T">>
HorizLine == HORIZ_INTERVAL \o <<" ", ":", " ", "1", ".", "0", "e", "-", "1">> \o CRLF
CountLine(number) == WAVE_ARRAY_COUNT \o <<" ", ":", " ">> \o number \o CRLF

DescTable ==
  { [chars |-> HorizLine \o CountLine(<<"2", "0">>),
     hasH |-> TRUE, h |-> Hundredths(10), W |-> 20],
    [chars |-> HorizLine \o CountLine(<<"2", ".", "0", "e", "+", "1">>),
     hasH |-> TRUE, h |-> Hundredths(10), W |-> 20],
    [chars |-> CountLine(<<"2", ".", "0", "e", "+", "1">>), hasH |-> FALSE, h |-> 0, W |-> 20],
    [chars |-> HorizLine \o CountLine(<<"5">>),
     hasH |-> TRUE, h |-> Hundredths(10), W |-> 5],
    [chars |-> HorizLine \o CountLine(<<"5", ".", "0", "e", "+", "0">>),
     hasH |-> TRUE, h |-> Hundredths(10), W |-> 5] }

\* Sample bodies: block k of a body holds the samples k and k + 1.
SampleText(v) == <<ToString(v), ".", "0", "e", "+", "0">>
SampleValue(v) == v * Pow10(FloatScale)

RECURSIVE BlocksText(_)
BlocksText(n) ==
  IF n = 0 THEN <<>>
  ELSE BlocksText(n - 1)
         \o <<"S", "e", "g", "m", "e", "n", "t", " ", "N", "o">> \o str(n) \o <<" ">>
         \o SampleText(n) \o <<" ">> \o SampleText(n + 1) \o <<" ">>

SimpleText(c, n) ==
  <<"C">> \o str(c) \o <<":", "I", "N", "S", "P", " ", "\"">> \o BlocksText(n) \o <<"\"">>

Blocks(n) == [k \in 1..n |-> <<SampleValue(k), SampleValue(k + 1)>>]

Dict(ls, d, counts) ==
  [idn |-> <<"L", "E", "C", "R", "O", "Y">>,
   wavedesc |-> [c \in 1..NumChannels |-> d.chars],
   simple |-> [c \in 1..NumChannels |-> SimpleText(c, counts[c])],
   trigtime |-> TrigText(ls)]

Given(ls, d, counts) ==
  [idn |-> <<>>, wavedesc |-> d, simple |-> [c \in 1..NumChannels |-> Blocks(counts[c])],
   trigtime |-> ls]

\* line 98, as it stands on the wire after the run of lines 31-61
Acquired ==
  [i \in 1..(Len(ControllerSetup) + NumQueries) |->
     IF i <= Len(ControllerSetup)
       THEN [kind |-> "controller", text |-> ControllerSetup[i]]
       ELSE [kind |-> "query",
             text |-> strip(Request(i - Len(ControllerSetup))) \o STBQ_CRLF]]

\* the channel and ask() once the ten queries are answered
AfterAcquisition ==
  /\ pc = "assemble"
  /\ qi = NumQueries
  /\ written = Acquired
  /\ inFlight = <<>>
  /\ inBuffer = <<>>
  /\ line = <<>>
  /\ txt = <<>>
  /\ stream = <<>>
  /\ discarded = <<>>
  /\ idleReads = 0
  /\ irregular = FALSE

(* The call of genTimeArrays() at line 77: every trigger-time body of up to *)
(* MaxTrigLines lines, with either ending, against every descriptor         *)
TimeInit ==
  /\ AfterAcquisition
  /\ \E ls \in TrigBodies(MaxTrigLines), tail \in TrigTails, d \in DescTable :
       /\ intermediateDict =
            [Dict(ls, d, [c \in 1..NumChannels |-> 1]) EXCEPT !.trigtime = @ \o tail]
       /\ given = Given(ls, d, [c \in 1..NumChannels |-> 1])
       /\ datObject = [metadata |-> Metadata(intermediateDict), data |-> None]
  /\ ppc = "times"
  /\ initialTimeValues = <<>>
  /\ timeArrayList = <<>>
  /\ err = ""

TimeNext == TimeArrays

TimeSpec == TimeInit /\ [][TimeNext]_vars

(* Lines 64-79 of dataGrabber(): every count of segments per channel up to   *)
(* MaxSegments against every count of trigger lines up to MaxSegments        *)
AssembleInit ==
  /\ AfterAcquisition
  /\ \E n \in 0..MaxSegments, d \in DescTable, counts \in [1..NumChannels -> 1..MaxSegments] :
       LET ls == [k \in 1..n |-> TrigLineTable[1]]
       IN /\ intermediateDict = Dict(ls, d, counts)
          /\ given = Given(ls, d, counts)
  /\ datObject = [metadata |-> <<>>, data |-> <<>>]
  /\ ppc = "metadata"
  /\ initialTimeValues = <<>>
  /\ timeArrayList = <<>>
  /\ err = ""

AssembleNext == BuildMetadata \/ TraceArrays \/ TimeArrays

AssembleSpec == AssembleInit /\ [][AssembleNext]_vars

----------------------------------------------------------------------------
(* Claims about the parsing and the assembly *)

RECURSIVE ClaimedSums(_)
ClaimedSums(ls) ==
  IF ls = <<>> THEN <<>>
  ELSE (IF Head(ls).claimed THEN <<Head(ls).sum>> ELSE <<>>) \o ClaimedSums(Tail(ls))

GtaEnded == ppc \in {"raised", "returned"}

\* C6: one trigger time, the sum of the two numbers, for every line that holds
\* exactly two numbers separated by whitespace or a comma, in line order; nothing
\* for any other line.
C6_SumPerTwoNumberLine ==
  GtaEnded => initialTimeValues = ClaimedSums(given.trigtime)

TriggerTimes == ClaimedSums(given.trigtime)
SegmentCount == Len(TriggerTimes)
ValidDescriptor ==
  /\ given.wavedesc.hasH
  /\ SegmentCount >= 1

\* C7: with S >= 1 trigger times and S dividing W, genTimeArrays() returns S axes
\* of W/S elements, element k of axis i being t[i] + k*h.
C7_TimeAxes ==
  (GtaEnded /\ ValidDescriptor /\ given.wavedesc.W % SegmentCount = 0) =>
    /\ err = ""
    /\ timeArrayList =
         [i \in 1..SegmentCount |->
            [k \in 1..(given.wavedesc.W \div SegmentCount) |->
               TriggerTimes[i] + (k - 1) * given.wavedesc.h]]

\* C8: when W is not a multiple of the number of trigger times, genTimeArrays()
\* fails with IndivisibleSampleCount and produces no axes.
C8_IndivisibleSampleCount ==
  (GtaEnded /\ ValidDescriptor /\ given.wavedesc.W % SegmentCount # 0) =>
    /\ err = "IndivisibleSampleCount"
    /\ timeArrayList = <<>>

\* C9: when some channel's number of segments differs from the number of time
\* axes, the assembly fails with SegmentCountMismatch.
C9_SegmentCountMismatch ==
  ( /\ GtaEnded
    /\ ValidDescriptor
    /\ given.wavedesc.W % SegmentCount = 0
    /\ \E c \in 1..NumChannels : Len(given.simple[c]) # SegmentCount )
  => err = "SegmentCountMismatch"

\* C10: genTraceArrays() returns, for a body of B blocks, B sample arrays in the
\* order of the blocks, each with its block's numbers in order.
C10_SampleArraysPerBlock ==
  ppc \in {"times", "raised"} =>
    /\ datObject.data # None
    /\ \A c \in 1..NumChannels : datObject.data[c] = given.simple[c]

----------------------------------------------------------------------------
(* setOscilloscopeDate(serDev), lines 194-207.  Nothing in the file calls it. *)

MonthAbbr ==
  << <<"J", "a", "n">>, <<"F", "e", "b">>, <<"M", "a", "r">>, <<"A", "p", "r">>,
     <<"M", "a", "y">>, <<"J", "u", "n">>, <<"J", "u", "l">>, <<"A", "u", "g">>,
     <<"S", "e", "p">>, <<"O", "c", "t">>, <<"N", "o", "v">>, <<"D", "e", "c">> >>

\* strftime of a number, zero-padded to w digits (%d, %H, %M, %S; %Y with w = 4)
RECURSIVE Padded(_, _)
Padded(n, w) == IF w = 0 THEN <<>> ELSE Padded(n \div 10, w - 1) \o <<ToString(n % 10)>>

\* ",".join(parts)
RECURSIVE join(_, _)
join(sep, parts) ==
  IF parts = <<>> THEN <<>>
  ELSE IF Len(parts) = 1 THEN parts[1]
  ELSE parts[1] \o sep \o join(sep, Tail(parts))

\* lines 198-205
DateCommand(now) ==
  <<"D", "A", "T", "E", " ">>
    \o join(<<",">>, << Padded(now.day, 2), MonthAbbr[now.month], Padded(now.year, 4),
                        Padded(now.hour, 2), Padded(now.minute, 2), Padded(now.second, 2) >>)

\* the values of datetime.datetime.now() the model draws
Nows ==
  [year : {2011, 2026}, month : {1, 10}, day : {1, 30}, hour : {1, 23},
   minute : {0, 59}, second : {7, 12}]

\* one call of setOscilloscopeDate() on an opened device, line 207
SetOscilloscopeDate ==
  /\ pc = "configure"
  /\ written = <<>>
  /\ \E now \in Nows :
       written' = <<[kind |-> "command", text |-> DateCommand(now) \o CRLF]>>
  /\ UNCHANGED <<pc, qi, inFlight, inBuffer, line, txt, stream, discarded, idleReads,
                 irregular, intermediateDict, pvars>>

DateSpec == Init /\ [][SetOscilloscopeDate]_vars

=============================================================================
